---- MODULE Spec2Model ----
(***************************************************************************)
(* ArchivingOrchestrator (src/src/auto_archiver/core/orchestrator.py):     *)
(* feed() pulls items from the feeder, feed_item() wraps archive() in a    *)
(* temporary directory and the two exception handlers, archive() drives    *)
(* one Metadata record through the archivers, databases, enrichers,        *)
(* storages and the formatter.                                             *)
(*                                                                         *)
(* Every plugin call is one step.  A call either returns or raises an      *)
(* Exception (Raises); a KeyboardInterrupt may arrive between any two      *)
(* steps of feed_item (Interrupt).                                         *)
(*                                                                         *)
(* feedItem, calls, sanLog, rearchLog, fetched, downloads, stored,         *)
(* doneArgs and returned are history variables: they record what the       *)
(* plugins were asked and what they answered for the item in flight, and   *)
(* what archive returned; no guard reads them.                             *)
(* The history of a stage is kept while the stage's outcome is observable  *)
(* and dropped afterwards: steps 1 and 2 when the database loop begins,    *)
(* the cache lookup when the first download is called, everything but the  *)
(* terminal calls when an exception leaves archive.                        *)
(***************************************************************************)
EXTENDS Integers, Sequences, FiniteSets, TLC

\* ------------------------------------------------------------------ bounds
NumArchivers == 2
NumDatabases == 2
NumEnrichers == 1
NumStorages == 1
NumItems == 2

Archivers == 1..NumArchivers
Databases == 1..NumDatabases
Enrichers == 1..NumEnrichers
Storages == 1..NumStorages
\* The URLs of the model, and the value of a url variable that holds none.
URLs == {"https://t.co/a1", "https://example.com/post/1"}
NoUrl == ""

\* ------------------------------------------------------------- data model
\* An optional value (Python None or an object) is a sequence of length <= 1.
None == <<>>
Some(x) == <<x>>

\* A property value of a Media object: a scalar, a Media object, or a list.
Scalar == [kind |-> "scalar"]
Leaf(src) == [src |-> src, props |-> <<>>]
MediaProp(m) == [kind |-> "media", media |-> m]
ListProp(elems) == [kind |-> "list", elems |-> elems]
\* A list element is a Media object or anything else.
MediaElem(m) == [isMedia |-> TRUE, media |-> m]
OtherElem == [isMedia |-> FALSE, media |-> Leaf("none")]

\* The Media a successful download adds: one scalar property, one nested
\* Media (which itself carries a Media property), one list of two Media
\* (the second carrying a Media property).
DownloadedMedia ==
    [src |-> "download",
     props |-> << Scalar,
                  MediaProp([src |-> "nested",
                             props |-> <<MediaProp(Leaf("deep"))>>]),
                  ListProp(<<MediaElem(Leaf("elem")),
                             MediaElem([src |-> "elem",
                                        props |-> <<MediaProp(Leaf("deep"))>>])>>) >>]
\* The Media an enricher adds: a list that does not start with a Media, an
\* empty list, and a list that starts with a Media and holds something else.
EnrichedMedia ==
    [src |-> "enrich",
     props |-> << ListProp(<<OtherElem, MediaElem(Leaf("elem"))>>),
                  ListProp(<<>>),
                  ListProp(<<MediaElem(Leaf("elem")), OtherElem>>) >>]
CachedMedia == Leaf("cache")
FinalMedia == Leaf("final")

\* Metadata(): the record a fresh Metadata() holds.
NewMetadata ==
    [rearchivable |-> FALSE, success |-> FALSE, media |-> <<>>]

\* The record the feeder delivers for a URL.
NewItem(u, r) ==
    [url |-> u, original_url |-> None, rearchivable |-> r, success |-> FALSE,
     media |-> <<>>, final_media |-> None]

\* The value of feedItem while no item's first two steps are under way.
NoItem == NewItem(NoUrl, FALSE)

CollectionKeys == {"media"}

\* Metadata.merge: key by key, scalar keys are overwritten by the incoming
\* record and collection-valued keys are concatenated.
Merge(left, right) ==
    [key \in (DOMAIN left) \cup (DOMAIN right) |->
        IF key \in DOMAIN right
        THEN IF key \in CollectionKeys /\ key \in DOMAIN left
             THEN left[key] \o right[key]
             ELSE right[key]
        ELSE left[key]]

\* Metadata.is_success
IsSuccess(rec) == rec.success

\* What a database's fetch may return besides None.
FetchResults ==
    { [rearchivable |-> r, success |-> TRUE, media |-> <<CachedMedia>>] : r \in BOOLEAN }

\* What an archiver's download may return.
DownloadResults ==
    { [success |-> ok, rearchivable |-> r,
       media |-> IF ok THEN <<DownloadedMedia>> ELSE <<>>] : ok, r \in BOOLEAN }

\* The Media an enricher's enrich may append to result.media.
EnrichResults == {<<>>, <<EnrichedMedia>>}

\* ------------------------------------------------------------------ state
VARIABLES
    pc,             \* the call about to be made, or the position in feed()
    i,              \* index of the plugin the current loop is at
    j,              \* position in the media walk of the storage loop
    fed,            \* items pulled from the feeder so far
    result,         \* the Metadata of the item in flight (item and result)
    url,            \* archive()'s local url
    cached_result,  \* archive()'s local cached_result
    final_media,    \* archive()'s local final_media
    tmp_dir,        \* the temporary directories that exist, by item number
    feedItem,       \* history: the record as the feeder delivered it
    calls,          \* history: the plugin calls made for the item, in order
    sanLog,         \* history: [in, out] of every sanitize_url call
    rearchLog,      \* history: [url, ans] of every is_rearchivable call
    fetched,        \* history: what every fetch returned
    downloads,      \* history: outcome of every download call
    stored,         \* history: [by, path] of every store call of step 5
    doneArgs,       \* history: the record every done call was given
    returned        \* history: what archive returned to feed_item

vars == <<pc, i, j, fed, result, url, cached_result, final_media, tmp_dir,
          feedItem, calls, sanLog, rearchLog, fetched, downloads, stored, doneArgs, returned>>

hist == <<feedItem, calls, sanLog, rearchLog, fetched, downloads, stored, doneArgs, returned>>

Call(op, by) == [op |-> op, by |-> by, ok |-> TRUE]
Raised(op, by) == [op |-> op, by |-> by, ok |-> FALSE]

Init ==
    /\ pc = "feed"
    /\ i = 1
    /\ j = 1
    /\ fed = 0
    /\ result = NoItem
    /\ url = NoUrl
    /\ cached_result = None
    /\ final_media = None
    /\ tmp_dir = {}
    /\ feedItem = NoItem
    /\ calls = <<>>
    /\ sanLog = <<>>
    /\ rearchLog = <<>>
    /\ fetched = <<>>
    /\ downloads = <<>>
    /\ stored = <<>>
    /\ doneArgs = <<>>
    /\ returned = None

\* ------------------------------------------------------- feed / feed_item
\* with tempfile.TemporaryDirectory(dir="./") as tmp_dir: entering the block
\* creates a fresh directory for the item, leaving it (by return, Exception
\* or KeyboardInterrupt) removes that directory.
TemporaryDirectory(dirs, item) == dirs \cup {item}

\* Mutant of Cleanup: the directory is removed on return only.
CleanupOnReturnOnly(dirs, item, how) ==
    IF how = "return" THEN dirs \ {item} ELSE dirs

Cleanup(dirs, item, how) == dirs \ {item}

\* feed: the for loop pulls the next item; feed_item enters the try block,
\* creates the temporary directory and calls archive(item).
FeedItem ==
    /\ pc = "feed"
    /\ fed < NumItems
    /\ \E u \in URLs, r \in BOOLEAN :
          /\ result' = NewItem(u, r)
          /\ feedItem' = NewItem(u, r)
          /\ url' = u
    /\ fed' = fed + 1
    /\ tmp_dir' = TemporaryDirectory(tmp_dir, fed + 1)
    /\ pc' = "sanitize_url"
    /\ i' = 1
    /\ j' = 1
    /\ cached_result' = None
    /\ final_media' = None
    /\ calls' = <<>>
    /\ sanLog' = <<>>
    /\ rearchLog' = <<>>
    /\ fetched' = <<>>
    /\ downloads' = <<>>
    /\ stored' = <<>>
    /\ doneArgs' = <<>>
    /\ returned' = None

\* feed: the feeder is exhausted and feed() returns.
FeedExhausted ==
    /\ pc = "feed"
    /\ fed = NumItems
    /\ pc' = "finished"
    /\ UNCHANGED <<i, j, fed, result, url, cached_result, final_media, tmp_dir, hist>>

\* --------------------------------------------------------------- archive
\* 1 - cleanup: url = a.sanitize_url(url) for the archiver at i.
SanitizeUrl ==
    /\ pc = "sanitize_url"
    /\ i <= NumArchivers
    /\ \E out \in URLs :
          /\ url' = out
          /\ sanLog' = Append(sanLog, [in |-> url, out |-> out])
    /\ calls' = Append(calls, Call("sanitize_url", i))
    /\ i' = i + 1
    /\ UNCHANGED <<pc, j, fed, result, cached_result, final_media, tmp_dir,
                   feedItem, rearchLog, fetched, downloads, stored, doneArgs, returned>>

\* Mutant of SetOriginalUrl: the original URL is recorded unconditionally.
SetOriginalUrlAlways(rec, original, new) ==
    [rec EXCEPT !.url = new, !.original_url = Some(original)]

\* result.set_url(url); if original_url != url: result.set("original_url", ...)
SetOriginalUrl(rec, original, new) ==
    IF original # new
    THEN [rec EXCEPT !.url = new, !.original_url = Some(original)]
    ELSE [rec EXCEPT !.url = new]

SetUrl ==
    /\ pc = "sanitize_url"
    /\ i > NumArchivers
    /\ result' = SetOriginalUrl(result, result.url, url)
    /\ pc' = "is_rearchivable"
    /\ i' = 1
    /\ UNCHANGED <<j, fed, url, cached_result, final_media, tmp_dir, hist>>

\* Mutant of OrRearchivable: = in place of |=.
AssignRearchivable(rec, ans) == [rec EXCEPT !.rearchivable = ans]

\* 2 - result.rearchivable |= a.is_rearchivable(url) for the archiver at i.
OrRearchivable(rec, ans) == [rec EXCEPT !.rearchivable = rec.rearchivable \/ ans]

\* Mutant of AfterIsRearchivable: the first database is not told started.
AfterIsRearchivableSkipsStarted(a) ==
    IF a < NumArchivers THEN [pc |-> "is_rearchivable", i |-> a + 1]
    ELSE [pc |-> "fetch", i |-> 1]

\* for a in self.archivers (step 2), then the database loop.
AfterIsRearchivable(a) ==
    IF a < NumArchivers THEN [pc |-> "is_rearchivable", i |-> a + 1]
    ELSE [pc |-> "started", i |-> 1]

IsRearchivable ==
    /\ pc = "is_rearchivable"
    /\ \E ans \in BOOLEAN :
          /\ result' = OrRearchivable(result, ans)
          /\ rearchLog' = Append(rearchLog, [url |-> url, ans |-> ans])
    /\ calls' = Append(calls, Call("is_rearchivable", i))
    /\ pc' = AfterIsRearchivable(i).pc
    /\ i' = AfterIsRearchivable(i).i
    /\ UNCHANGED <<j, fed, url, cached_result, final_media, tmp_dir,
                   feedItem, sanLog, fetched, downloads, stored, doneArgs, returned>>

\* d.started(result) for the database at i.  The history of steps 1 and 2
\* (feedItem, sanLog, rearchLog) describes the state in which step 2 ends
\* and is dropped when the database loop begins.
Started ==
    /\ pc = "started"
    /\ calls' = Append(calls, Call("started", i))
    /\ pc' = "fetch"
    /\ feedItem' = NoItem
    /\ sanLog' = <<>>
    /\ rearchLog' = <<>>
    /\ UNCHANGED <<i, j, fed, result, url, cached_result, final_media, tmp_dir,
                   fetched, downloads, stored, doneArgs, returned>>

\* cached_result = (cached_result or Metadata()).merge(local_result)
MergeCached(cached, local) ==
    IF cached = None THEN Some(Merge(NewMetadata, local))
                     ELSE Some(Merge(cached[1], local))

\* Mutant of AfterFetch: started is called on the first database only.
AfterFetchSkipsStarted(d) ==
    IF d < NumDatabases THEN [pc |-> "fetch", i |-> d + 1]
    ELSE [pc |-> "cache_check", i |-> 1]

\* for d in self.databases: started and fetch on one database, then the next.
AfterFetch(d) ==
    IF d < NumDatabases THEN [pc |-> "started", i |-> d + 1]
    ELSE [pc |-> "cache_check", i |-> 1]

\* if (local_result := d.fetch(result)): ... for the database at i.
Fetch ==
    /\ pc = "fetch"
    /\ \E local \in {None} \cup {Some(r) : r \in FetchResults} :
          /\ cached_result' = IF local = None THEN cached_result
                              ELSE MergeCached(cached_result, local[1])
          /\ fetched' = Append(fetched, local)
    /\ calls' = Append(calls, Call("fetch", i))
    /\ pc' = AfterFetch(i).pc
    /\ i' = AfterFetch(i).i
    /\ UNCHANGED <<j, fed, result, url, final_media, tmp_dir,
                   feedItem, sanLog, rearchLog, downloads, stored, doneArgs, returned>>

\* Mutant of ShortCircuit: the "not" is missing.
ShortCircuitWithoutNot(cached) == cached # None /\ cached[1].rearchivable

\* if cached_result and not cached_result.rearchivable
ShortCircuit(cached) == cached # None /\ ~cached[1].rearchivable

CacheCheck ==
    /\ pc = "cache_check"
    /\ pc' = IF ShortCircuit(cached_result) THEN "done_cached" ELSE "download"
    /\ UNCHANGED <<i, j, fed, result, url, cached_result, final_media, tmp_dir, hist>>

\* for d in self.databases: d.done(...), then the return statement that
\* follows the loop: return cached_result, or return result.
AfterDone(at, d) ==
    IF d < NumDatabases THEN [pc |-> at, i |-> d + 1]
    ELSE [pc |-> IF at = "done_cached" THEN "return_cached" ELSE "return", i |-> 1]

\* for d in self.databases: d.done(cached_result); return cached_result
DoneCached ==
    /\ pc = "done_cached"
    /\ calls' = Append(calls, Call("done", i))
    /\ doneArgs' = Append(doneArgs, [arg |-> "cached_result", rec |-> cached_result[1]])
    /\ pc' = AfterDone(pc, i).pc
    /\ i' = AfterDone(pc, i).i
    /\ UNCHANGED <<j, fed, result, url, cached_result, final_media, tmp_dir,
                   feedItem, sanLog, rearchLog, fetched, downloads, stored, returned>>

\* Mutant of AfterDownload: the break is missing.
AfterDownloadNoBreak(rec, a) ==
    IF a < NumArchivers THEN [pc |-> "download", i |-> a + 1]
    ELSE [pc |-> "enrich", i |-> 1]

\* 3 - where the archiver loop goes after the archiver at i: break on
\* success, else the next archiver, else the enrichers.
AfterDownload(rec, a) ==
    IF IsSuccess(rec) THEN [pc |-> "enrich", i |-> 1]
    ELSE IF a < NumArchivers THEN [pc |-> "download", i |-> a + 1]
    ELSE [pc |-> "enrich", i |-> 1]

\* except Exception: the error is logged and the loop goes on.
AfterDownloadRaised(a) ==
    IF a < NumArchivers THEN [pc |-> "download", i |-> a + 1]
    ELSE [pc |-> "enrich", i |-> 1]

\* result.merge(a.download(result)); if result.is_success(): break
\* The history of the lookup (fetched) is kept on the short-circuit path and
\* dropped once the first download is called.
Download ==
    /\ pc = "download"
    /\ \E ret \in DownloadResults :
          /\ result' = Merge(result, ret)
          /\ downloads' = Append(downloads,
                 [by |-> i, raised |-> FALSE, success |-> IsSuccess(Merge(result, ret))])
          /\ pc' = AfterDownload(Merge(result, ret), i).pc
          /\ i' = AfterDownload(Merge(result, ret), i).i
    /\ calls' = Append(calls, Call("download", i))
    /\ fetched' = <<>>
    /\ UNCHANGED <<j, fed, url, cached_result, final_media, tmp_dir,
                   feedItem, sanLog, rearchLog, stored, doneArgs, returned>>

\* 4 - e.enrich(result) for the enricher at i: it may add a Media.
\* Mutant of AfterEnrich: step 5 is skipped.
AfterEnrichSkipsStore(e) ==
    IF e < NumEnrichers THEN [pc |-> "enrich", i |-> e + 1]
    ELSE [pc |-> "format", i |-> 1]

\* for e in self.enrichers, then the storage loop.
AfterEnrich(e) ==
    IF e < NumEnrichers THEN [pc |-> "enrich", i |-> e + 1]
    ELSE [pc |-> "store", i |-> 1]

Enrich ==
    /\ pc = "enrich"
    /\ \E added \in EnrichResults :
          result' = [result EXCEPT !.media = result.media \o added]
    /\ calls' = Append(calls, Call("enrich", i))
    /\ pc' = AfterEnrich(i).pc
    /\ i' = AfterEnrich(i).i
    /\ j' = 1
    /\ UNCHANGED <<fed, url, cached_result, final_media, tmp_dir,
                   feedItem, sanLog, rearchLog, fetched, downloads, stored, doneArgs, returned>>

\* 5 - the Media one storage is asked to store for the Media m at index n of
\* result.media, in call order: m itself, then for every property value of
\* m, the value when it is a Media, or every element of the value when it is
\* a non-empty list whose first element is a Media.  A Media is named by its
\* path: <<n>>, <<n, p>> for property p, <<n, p, e>> for element e.
\* Mutant of PropWalk: the first element of a list is not looked at.
PropWalkAnyList(prop, n, p) ==
    IF prop.kind = "media" THEN << <<n, p>> >>
    ELSE IF prop.kind = "list" /\ Len(prop.elems) > 0
         THEN [e \in 1..Len(prop.elems) |-> <<n, p, e>>]
    ELSE << >>

PropWalk(prop, n, p) ==
    IF prop.kind = "media" THEN << <<n, p>> >>
    ELSE IF prop.kind = "list" /\ Len(prop.elems) > 0 /\ prop.elems[1].isMedia
         THEN [e \in 1..Len(prop.elems) |-> <<n, p, e>>]
    ELSE << >>

RECURSIVE PropsWalk(_, _, _)
PropsWalk(props, n, p) ==
    IF p > Len(props) THEN << >>
    ELSE PropWalk(props[p], n, p) \o PropsWalk(props, n, p + 1)

MediaWalk(m, n) == << <<n>> >> \o PropsWalk(m.props, n, 1)

RECURSIVE StoreWalk(_, _)
StoreWalk(media, n) ==
    IF n > Len(media) THEN << >>
    ELSE MediaWalk(media[n], n) \o StoreWalk(media, n + 1)

\* s.store(..., result) for the storage at i and the Media at position j of
\* the walk.
Store ==
    /\ pc = "store"
    /\ j <= Len(StoreWalk(result.media, 1))
    /\ stored' = Append(stored, [by |-> i, path |-> StoreWalk(result.media, 1)[j]])
    /\ calls' = Append(calls, Call("store", i))
    /\ j' = j + 1
    /\ UNCHANGED <<pc, i, fed, result, url, cached_result, final_media, tmp_dir,
                   feedItem, sanLog, rearchLog, fetched, downloads, doneArgs, returned>>

\* Mutant of AfterStore: step 6 is skipped.
AfterStoreSkipsFormat(s) ==
    IF s < NumStorages THEN [pc |-> "store", i |-> s + 1]
    ELSE [pc |-> "done", i |-> 1]

AfterStore(s) ==
    IF s < NumStorages THEN [pc |-> "store", i |-> s + 1]
    ELSE [pc |-> "format", i |-> 1]

\* for s in self.storages: the walk of the storage at i is over.
StoreNext ==
    /\ pc = "store"
    /\ j > Len(StoreWalk(result.media, 1))
    /\ pc' = AfterStore(i).pc
    /\ i' = AfterStore(i).i
    /\ j' = 1
    /\ UNCHANGED <<fed, result, url, cached_result, final_media, tmp_dir, hist>>

\* Mutant of AfterFormat: the result of format is stored whatever it is.
AfterFormatAlwaysStores(ret) == "store_final"

\* 6 - if (final_media := self.formatter.format(result))
AfterFormat(ret) == IF ret = None THEN "done" ELSE "store_final"

Format ==
    /\ pc = "format"
    /\ \E ret \in {None, Some(FinalMedia)} :
          /\ final_media' = ret
          /\ pc' = AfterFormat(ret)
    /\ calls' = Append(calls, Call("format", 1))
    /\ UNCHANGED <<i, j, fed, result, url, cached_result, tmp_dir,
                   feedItem, sanLog, rearchLog, fetched, downloads, stored, doneArgs, returned>>

\* s.store(final_media, result) for the storage at i; after the last one,
\* result.set_final_media(final_media).
StoreFinal ==
    /\ pc = "store_final"
    /\ calls' = Append(calls, Call("store_final", i))
    /\ IF i < NumStorages
       THEN /\ i' = i + 1
            /\ pc' = pc
            /\ result' = result
       ELSE /\ i' = 1
            /\ pc' = "done"
            /\ result' = [result EXCEPT !.final_media = final_media]
    /\ UNCHANGED <<j, fed, url, cached_result, final_media, tmp_dir,
                   feedItem, sanLog, rearchLog, fetched, downloads, stored, doneArgs, returned>>

\* for d in self.databases: d.done(result)
Done ==
    /\ pc = "done"
    /\ calls' = Append(calls, Call("done", i))
    /\ doneArgs' = Append(doneArgs, [arg |-> "result", rec |-> result])
    /\ pc' = AfterDone(pc, i).pc
    /\ i' = AfterDone(pc, i).i
    /\ UNCHANGED <<j, fed, result, url, cached_result, final_media, tmp_dir,
                   feedItem, sanLog, rearchLog, fetched, downloads, stored, returned>>

\* return cached_result / return result: archive returns (its locals are
\* gone), the with block removes the temporary directory, feed_item returns
\* what archive returned and feed() goes on to the next item.
\* Mutant of ReturnValue: the short-circuit path returns the item's record.
ReturnValueAlwaysResult(at, rec, cached) == Some(rec)

ReturnValue(at, rec, cached) == IF at = "return_cached" THEN cached ELSE Some(rec)

Return ==
    /\ pc \in {"return", "return_cached"}
    /\ returned' = ReturnValue(pc, result, cached_result)
    /\ tmp_dir' = Cleanup(tmp_dir, fed, "return")
    /\ pc' = "feed"
    /\ url' = NoUrl
    /\ cached_result' = None
    /\ final_media' = None
    /\ UNCHANGED <<i, j, fed, result, feedItem, calls, sanLog, rearchLog, fetched,
                   downloads, stored, doneArgs>>

\* ----------------------------------------------------------- exceptions
\* The plugin call pending at pc, and the plugin it is made on.
InArchive ==
    pc \in {"sanitize_url", "is_rearchivable", "started", "fetch", "cache_check",
            "done_cached", "download", "enrich", "store", "format", "store_final",
            "done"}

InTry == InArchive \/ pc \in {"return", "return_cached"}

InHandler == pc \in {"aborted", "failed"}

CallPending ==
    \/ pc \in {"is_rearchivable", "started", "fetch", "done_cached", "download",
               "enrich", "format", "store_final", "done", "aborted", "failed"}
    \/ pc = "sanitize_url" /\ i <= NumArchivers
    \/ pc = "store" /\ j <= Len(StoreWalk(result.media, 1))

PendingOp == IF pc = "done_cached" THEN "done" ELSE pc

\* Mutant of CatchException: archive's archiver loop has no try.
CatchExceptionInFeedItemOnly(at, a) ==
    IF at \in {"aborted", "failed"} THEN [pc |-> "crashed", i |-> 1]
    ELSE [pc |-> "failed", i |-> 1]

\* Where an Exception raised by the pending call is caught:
\*   in archive's archiver loop (except Exception: log, next archiver),
\*   in feed_item (except Exception: failed on every database),
\*   nowhere when it is raised inside one of feed_item's handlers.
CatchException(at, a) ==
    IF at = "download" THEN AfterDownloadRaised(a)
    ELSE IF at \in {"aborted", "failed"} THEN [pc |-> "crashed", i |-> 1]
    ELSE [pc |-> "failed", i |-> 1]

\* What the history keeps of the calls made once archive is left through an
\* exception: the terminal calls (done, failed, aborted) and the calls that
\* raised without being caught inside archive.
IsTerminal(c) == c.op \in {"done", "failed", "aborted"}
KeptOnLeave(c) == IsTerminal(c) \/ (~c.ok /\ c.op # "download")
TerminalCalls(log) == SelectSeq(log, KeptOnLeave)

\* The pending plugin call raises an Exception.  Caught inside archive, the
\* loop goes on.  Otherwise archive is left: its locals are gone, the with
\* block removes the temporary directory, and the history keeps the terminal
\* calls made so far and the call that raised (TerminalCalls).
Raises ==
    /\ CallPending
    /\ pc' = CatchException(pc, i).pc
    /\ i' = CatchException(pc, i).i
    /\ IF pc = "download"
       THEN /\ calls' = Append(calls, Raised(PendingOp, i))
            /\ downloads' = Append(downloads, [by |-> i, raised |-> TRUE,
                                               success |-> IsSuccess(result)])
            /\ fetched' = <<>>
            /\ UNCHANGED <<j, url, cached_result, final_media, tmp_dir,
                           feedItem, sanLog, rearchLog, stored, doneArgs, returned>>
       ELSE /\ calls' = Append(TerminalCalls(calls), Raised(PendingOp, i))
            /\ downloads' = <<>>
            /\ j' = 1
            /\ url' = NoUrl
            /\ cached_result' = None
            /\ final_media' = None
            /\ tmp_dir' = Cleanup(tmp_dir, fed, "exception")
            /\ feedItem' = NoItem
            /\ sanLog' = <<>>
            /\ rearchLog' = <<>>
            /\ fetched' = <<>>
            /\ stored' = <<>>
            /\ doneArgs' = <<>>
            /\ returned' = None
    /\ UNCHANGED <<fed, result>>

\* Where a KeyboardInterrupt is caught: in feed_item when it arrives inside
\* the try block, nowhere when it arrives inside a handler.
CatchInterrupt(at) == IF at \in {"aborted", "failed"} THEN "crashed" ELSE "aborted"

\* A KeyboardInterrupt arrives while feed_item runs: archive is left as for
\* an Exception that is not caught inside it.
Interrupt ==
    /\ InTry \/ InHandler
    /\ pc' = CatchInterrupt(pc)
    /\ i' = 1
    /\ calls' = Append(TerminalCalls(calls), Raised("KeyboardInterrupt", 0))
    /\ downloads' = <<>>
    /\ j' = 1
    /\ url' = NoUrl
    /\ cached_result' = None
    /\ final_media' = None
    /\ tmp_dir' = Cleanup(tmp_dir, fed, "interrupt")
    /\ feedItem' = NoItem
    /\ sanLog' = <<>>
    /\ rearchLog' = <<>>
    /\ fetched' = <<>>
    /\ stored' = <<>>
    /\ doneArgs' = <<>>
    /\ returned' = None
    /\ UNCHANGED <<fed, result>>

\* for d in self.databases: d.aborted(item), then exit(): the process ends.
AfterAborted(d) ==
    IF d < NumDatabases THEN [pc |-> "aborted", i |-> d + 1]
    ELSE [pc |-> "exited", i |-> 1]

\* except KeyboardInterrupt: for d in self.databases: d.aborted(item); exit()
Aborted ==
    /\ pc = "aborted"
    /\ calls' = Append(calls, Call("aborted", i))
    /\ pc' = AfterAborted(i).pc
    /\ i' = AfterAborted(i).i
    /\ UNCHANGED <<j, fed, result, url, cached_result, final_media, tmp_dir,
                   feedItem, sanLog, rearchLog, fetched, downloads, stored, doneArgs, returned>>

\* for d in self.databases: d.failed(item), then back to feed()'s loop.
AfterFailed(d) ==
    IF d < NumDatabases THEN [pc |-> "failed", i |-> d + 1]
    ELSE [pc |-> "feed", i |-> 1]

\* except Exception: for d in self.databases: d.failed(item); feed_item
\* returns None and feed() goes on to the next item.
Failed ==
    /\ pc = "failed"
    /\ calls' = Append(calls, Call("failed", i))
    /\ pc' = AfterFailed(i).pc
    /\ i' = AfterFailed(i).i
    /\ UNCHANGED <<j, fed, result, url, cached_result, final_media, tmp_dir,
                   feedItem, sanLog, rearchLog, fetched, downloads, stored, doneArgs, returned>>

Next ==
    \/ FeedItem
    \/ FeedExhausted
    \/ SanitizeUrl
    \/ SetUrl
    \/ IsRearchivable
    \/ Started
    \/ Fetch
    \/ CacheCheck
    \/ DoneCached
    \/ Download
    \/ Enrich
    \/ Store
    \/ StoreNext
    \/ Format
    \/ StoreFinal
    \/ Done
    \/ Return
    \/ Raises
    \/ Interrupt
    \/ Aborted
    \/ Failed

Spec == Init /\ [][Next]_vars
\* ----------------------------------------------------------- properties
\* The calls op made on plugin d for the item, whether they returned or raised.
CallsOf(op, d) == {n \in 1..Len(calls) : calls[n].op = op /\ calls[n].by = d}
Count(op, d) == Cardinality(CallsOf(op, d))
TerminalCount(d) == Count("done", d) + Count("failed", d) + Count("aborted", d)

\* An Exception left archive (it was raised by a call other than download).
ExceptionEscaped ==
    \E n \in 1..Len(calls) :
        ~calls[n].ok /\ calls[n].op \notin {"download", "KeyboardInterrupt"}
\* A KeyboardInterrupt arrived while feed_item was running.
Interrupted == \E n \in 1..Len(calls) : calls[n].op = "KeyboardInterrupt"

\* feed_item has returned or has ended the process with exit().
ItemReturned == fed > 0 /\ pc \in {"feed", "finished", "exited"}

\* The terminal calls on database d that returned.
ReturnedTerminal(d) ==
    Cardinality({n \in 1..Len(calls) :
                    calls[n].by = d /\ calls[n].ok /\ IsTerminal(calls[n])})

\* C1: for every item handed to feed_item, whichever call raises or is
\* interrupted, every database receives exactly one terminal call (done,
\* failed or aborted): never more than one completes, and exactly one has
\* completed once feed_item is over.
C1_ExactlyOneTerminalCall ==
    \A d \in Databases :
        /\ ReturnedTerminal(d) <= 1
        /\ ItemReturned => ReturnedTerminal(d) = 1

\* The candidate the fetch results merge into, in database order.
RECURSIVE MergedCandidate(_)
MergedCandidate(results) ==
    IF results = <<>> THEN None
    ELSE LET before == MergedCandidate(SubSeq(results, 1, Len(results) - 1))
             last == results[Len(results)]
         IN  IF last = None THEN before
             ELSE IF before = None THEN Some(Merge(NewMetadata, last[1]))
             ELSE Some(Merge(before[1], last[1]))

\* The cache lookup is over and archive has taken one of its two ways: the
\* short-circuit path, or step 3 (no download called yet).
LookupOver ==
    /\ Len(fetched) = NumDatabases
    /\ pc \notin {"started", "fetch", "cache_check"}

SomeFetchNotRearchivable ==
    \E n \in 1..Len(fetched) : fetched[n] # None /\ ~fetched[n][1].rearchivable

CandidateNotRearchivable ==
    /\ MergedCandidate(fetched) # None
    /\ ~MergedCandidate(fetched)[1].rearchivable

NoCallOf(ops) == \A n \in 1..Len(calls) : calls[n].op \notin ops

\* What archive does on the short-circuit path: no download is made, every
\* done call made so far was given the merged candidate, and once archive
\* has returned every database has received done.
ShortCircuited ==
    /\ pc \in {"done_cached", "return_cached", "feed", "finished"}
    /\ NoCallOf({"download"})
    /\ \A n \in 1..Len(doneArgs) : doneArgs[n].rec = MergedCandidate(fetched)[1]
    /\ pc # "done_cached" => \A d \in Databases : Count("done", d) = 1

\* C2 as stated: if any database's fetch returns a record whose rearchivable
\* flag is false, archive calls done on all databases with the merged cached
\* record and calls no archiver's download.
C2_AnyFetchShortCircuits ==
    (LookupOver /\ SomeFetchNotRearchivable) => ShortCircuited

\* C2 amended: if the candidate merged from the non-empty fetch results
\* exists and its rearchivable flag is false, archive calls done on all
\* databases with that merged record and calls no archiver's download.
C2_CandidateShortCircuits ==
    (LookupOver /\ CandidateNotRearchivable) => ShortCircuited

C2_Witness ==
    /\ pc = "return_cached"
    /\ CandidateNotRearchivable
    /\ \A n \in 1..Len(fetched) : fetched[n] # None
    /\ Len(doneArgs) = NumDatabases

\* C3: download is called on the archivers in registration order, each at
\* most once; an archiver whose download raises is skipped; no download is
\* called after the one that makes the record report success; the loop ends
\* only on success or after the last archiver.
InArchiverLoop == pc = "download"
PastArchiverLoop == pc \in {"enrich", "store", "format", "store_final", "done"}

C3_FetchLoop ==
    /\ \A n \in 1..Len(downloads) : downloads[n].by = n
    /\ \A n \in 1..(Len(downloads) - 1) : ~downloads[n].success
    /\ \A n \in 1..Len(downloads) : downloads[n].raised => ~downloads[n].success
    /\ InArchiverLoop =>
          /\ i = Len(downloads) + 1
          /\ \A n \in 1..Len(downloads) : ~downloads[n].success
    /\ PastArchiverLoop =>
          /\ Len(downloads) >= 1
          /\ downloads[Len(downloads)].success \/ Len(downloads) = NumArchivers
          /\ IsSuccess(result) = downloads[Len(downloads)].success

C3_Witness ==
    /\ pc = "enrich"
    /\ Len(downloads) = NumArchivers
    /\ downloads[1].raised
    /\ downloads[Len(downloads)].success

\* C4: when an Exception other than a cancellation leaves archive, failed is
\* called on every database for the item and feed() goes on to the next item.
C4_FailureIsolation ==
    (ExceptionEscaped /\ ~Interrupted /\ pc # "failed") =>
        /\ pc \in {"feed", "finished"}
        /\ \A d \in Databases : Count("failed", d) = 1

\* C5: when a KeyboardInterrupt arrives while feed_item processes an item and
\* feed_item has ended the run, every database has received exactly one
\* aborted call and neither done nor failed for the item.
C5_Cancellation ==
    (Interrupted /\ pc = "exited") =>
        \A d \in Databases :
            /\ Count("aborted", d) = 1
            /\ Count("done", d) = 0
            /\ Count("failed", d) = 0

\* Every download was tried and none made the record report success.
AllDownloadsFailed ==
    /\ Len(downloads) = NumArchivers
    /\ \A n \in 1..Len(downloads) : ~downloads[n].success

\* The Media, by path, that every storage has to be given for a record's
\* media list: every Media of the list, every property value that is a Media,
\* and every element of a property value that is a list starting with a Media.
MediaProps(media, n) ==
    {p \in 1..Len(media[n].props) : media[n].props[p].kind = "media"}
MediaLists(media, n) ==
    {p \in 1..Len(media[n].props) :
        /\ media[n].props[p].kind = "list"
        /\ media[n].props[p].elems # <<>>
        /\ media[n].props[p].elems[1].isMedia}
Reachable(media) ==
    UNION { {<<n>>}
            \cup {<<n, p>> : p \in MediaProps(media, n)}
            \cup UNION { {<<n, p, e>> : e \in 1..Len(media[n].props[p].elems)}
                         : p \in MediaLists(media, n) }
            : n \in 1..Len(media) }

TimesStored(s, path) ==
    Cardinality({n \in 1..Len(stored) : stored[n].by = s /\ stored[n].path = path})
StoreCalls(s) == Cardinality({n \in 1..Len(stored) : stored[n].by = s})

\* Storage s has gone through the whole media walk of step 5.
WalkOver(s) ==
    \/ pc = "store" /\ s < i
    \/ pc \in {"format", "store_final", "done", "return"}

\* C6: when every archiver's download raised or left the record without
\* success, and nothing else raised, the item still goes through every
\* enricher, the storing of its media and the formatter, and every database
\* receives done and not failed.
C6_AllDownloadsFail ==
    AllDownloadsFailed =>
        /\ pc \in {"enrich", "store", "format", "store_final", "done", "return",
                   "feed", "finished"}
        /\ pc \in {"return", "feed", "finished"} =>
              /\ \A e \in Enrichers : Count("enrich", e) = 1
              /\ \A s \in Storages : \A path \in Reachable(result.media) :
                    TimesStored(s, path) = 1
              /\ Count("format", 1) = 1
              /\ \A d \in Databases :
                    /\ Count("done", d) = 1
                    /\ Count("failed", d) = 0
                    /\ Count("aborted", d) = 0

C6_Witness ==
    /\ pc = "return"
    /\ AllDownloadsFailed
    /\ downloads[1].raised
    /\ ~downloads[Len(downloads)].raised
    /\ ~IsSuccess(result)

\* C7: in step 5 every storage is given, exactly once each, every Media of
\* result.media, every property value of it that is a Media and every
\* element of a property value that is a list starting with a Media; it is
\* given no scalar property and nothing nested deeper.
C7_NestedMedia ==
    LET reachable == Reachable(result.media)
    IN  \A s \in Storages :
            /\ \A n \in 1..Len(stored) : stored[n].path \in reachable
            /\ \A path \in reachable :
                  /\ TimesStored(s, path) <= 1
                  /\ WalkOver(s) => TimesStored(s, path) = 1

\* One scalar, one nested Media and a list of two Media: 4 calls per storage.
C7_Witness ==
    /\ pc = "format"
    /\ result.media = <<DownloadedMedia>>
    /\ \A s \in Storages : StoreCalls(s) = 4

\* C8 as stated: whenever done is called with a record, every storage has
\* already been given every Media reachable from that record during this
\* item's processing, the cache short-circuit path included.
C8_StoredBeforeEveryDone ==
    \A n \in 1..Len(doneArgs) :
        \A s \in Storages : \A path \in Reachable(doneArgs[n].rec.media) :
            TimesStored(s, path) >= 1

\* C8 amended: whenever done is called with the item's own record, every
\* storage has already been given every Media reachable from it, and its
\* final media; on the cache short-circuit path done is called with the
\* cached record and no storage has been called for the item.
C8_StoredBeforeDoneOfResult ==
    \A n \in 1..Len(doneArgs) :
        /\ doneArgs[n].arg = "result" =>
              /\ \A s \in Storages : \A path \in Reachable(doneArgs[n].rec.media) :
                    TimesStored(s, path) >= 1
              /\ doneArgs[n].rec.final_media # None =>
                    \A s \in Storages : Count("store_final", s) = 1
        /\ doneArgs[n].arg = "cached_result" =>
              /\ stored = <<>>
              /\ NoCallOf({"store", "store_final"})

C8_Witness ==
    /\ pc = "return"
    /\ Len(doneArgs) = NumDatabases
    /\ doneArgs[1].arg = "result"
    /\ doneArgs[1].rec.final_media # None
    /\ Len(doneArgs[1].rec.media) >= 2
    /\ doneArgs[1].rec.media[1] = DownloadedMedia

\* Step 1 is over and steps 1 and 2 are still in the history.
SanitizeOver == pc = "is_rearchivable" \/ (pc = "started" /\ i = 1)
RearchivableOver == pc = "started" /\ i = 1

\* C9: after step 1 the record's URL is the result of applying every
\* archiver's sanitize_url once, in registration order, each to the previous
\* output, starting from the URL u the feeder gave; and the record holds u
\* under original_url exactly when that final URL differs from u.
C9_Sanitize ==
    SanitizeOver =>
        /\ Len(sanLog) = NumArchivers
        /\ \A n \in 1..NumArchivers : calls[n] = Call("sanitize_url", n)
        /\ sanLog[1].in = feedItem.url
        /\ \A n \in 2..NumArchivers : sanLog[n].in = sanLog[n - 1].out
        /\ result.url = sanLog[NumArchivers].out
        /\ (result.original_url = Some(feedItem.url)) <=> (result.url # feedItem.url)
        /\ result.url = feedItem.url => result.original_url = None

\* The first archiver leaves the URL alone, the last one changes it.
C9_Witness ==
    /\ pc = "is_rearchivable"
    /\ result.original_url = Some(feedItem.url)
    /\ sanLog[1].out = sanLog[1].in
    /\ sanLog[NumArchivers].out # sanLog[NumArchivers].in

\* C10 as stated: after step 2 the record's rearchivable flag is true iff at
\* least one archiver's is_rearchivable returned true for the sanitized URL.
C10_RearchivableIffSomeArchiver ==
    RearchivableOver =>
        (result.rearchivable <=> \E n \in 1..Len(rearchLog) : rearchLog[n].ans)

\* C10 amended: the flag is true iff the feeder delivered the record with
\* the flag already true or at least one archiver's is_rearchivable returned
\* true; every archiver is asked once, about the sanitized URL.
C10_RearchivableOr ==
    SanitizeOver =>
        /\ result.rearchivable <=>
              (feedItem.rearchivable \/ \E n \in 1..Len(rearchLog) : rearchLog[n].ans)
        /\ \A n \in 1..Len(rearchLog) :
              /\ rearchLog[n].url = result.url
              /\ calls[NumArchivers + n] = Call("is_rearchivable", n)
        /\ RearchivableOver => Len(rearchLog) = NumArchivers

C10_Witness ==
    /\ RearchivableOver
    /\ ~feedItem.rearchivable
    /\ result.rearchivable
    /\ ~rearchLog[1].ans
    /\ result.url # feedItem.url

\* An item is being processed by feed_item (result is that item's record).
InFlight == pc \notin {"feed", "finished", "exited", "crashed"}

\* C11: once the record's rearchivable flag is true, it is true in every
\* later state of the item's processing: no step of archive, the merge of a
\* download result in step 3 included, takes the flag from true to false.
C11_MonotonicRearchivable ==
    [][(InFlight /\ result.rearchivable) => result'.rearchivable]_vars

\* The history of the calls is complete: no exception has left archive.
CallsComplete == ~ExceptionEscaped /\ ~Interrupted

\* archive has left the database loop of step 2 and has not returned.
PastLookup ==
    pc \in {"cache_check", "done_cached", "download", "enrich", "store", "format",
            "store_final", "done", "return", "return_cached"}

\* C12 as stated: started is called on every database first and only then
\* fetch on every database: no fetch call comes before a started call.
C12_AllStartedBeforeAnyFetch ==
    \A m, n \in 1..Len(calls) :
        (m < n /\ calls[m].op = "fetch") => calls[n].op # "started"

\* C12 amended: the databases are visited once, in registration order, and
\* each receives started and right after it fetch, before the next database
\* receives anything; so fetch on one database precedes started on the next.
C12_StartedThenFetchPerDatabase ==
    CallsComplete =>
        /\ \A n \in 1..Len(calls) :
              calls[n].op = "fetch" =>
                  /\ n > 1
                  /\ calls[n - 1] = Call("started", calls[n].by)
        /\ \A n \in 1..Len(calls) :
              calls[n].op = "started" =>
                  /\ calls[n].by = 1 + Cardinality({m \in 1..(n - 1) : calls[m].op = "started"})
                  /\ n < Len(calls) => calls[n + 1].op = "fetch"
                  /\ n = Len(calls) => pc = "fetch" /\ i = calls[n].by
        /\ PastLookup =>
              \A d \in Databases : Count("started", d) = 1 /\ Count("fetch", d) = 1

C12_Witness ==
    /\ pc = "cache_check"
    /\ NumDatabases >= 2
    /\ \E n \in 1..Len(calls) :
          /\ calls[n] = Call("fetch", 1)
          /\ calls[n + 1] = Call("started", 2)

\* The positions in calls of the calls of the operations ops.
Positions(ops) == {n \in 1..Len(calls) : calls[n].op \in ops}

\* archive is in, or has returned from, the done loop of step 6 (the item
\* was not short-circuited and nothing raised).
NormalDone ==
    /\ CallsComplete
    /\ \/ pc \in {"done", "return"}
       \/ pc \in {"feed", "finished"} /\ doneArgs # <<>> /\ doneArgs[1].arg = "result"

\* C13: for an item that is not short-circuited, format is called exactly
\* once, after every store call of step 5 and before every done call; when
\* it returns a Media, store is called on that Media once for every storage,
\* between format and the first done, and every done call is given a record
\* that holds it as final media; when it returns nothing, no store call
\* follows format and the record given to done holds no final media.
C13_Render ==
    /\ (CallsComplete /\ pc \in {"store_final", "done", "return"}) =>
          /\ Cardinality(Positions({"format"})) = 1
          /\ \A f \in Positions({"format"}) :
                /\ calls[f].ok
                /\ \A n \in Positions({"store"}) : n < f
                /\ \A n \in Positions({"store_final", "done"}) : f < n
          /\ \A n \in Positions({"store_final"}) : \A d \in Positions({"done"}) : n < d
          /\ final_media = None => Positions({"store_final"}) = {}
          /\ pc \in {"done", "return"} =>
                /\ result.final_media = final_media
                /\ final_media # None =>
                      \A s \in Storages : Count("store_final", s) = 1
    /\ NormalDone =>
          /\ Count("format", 1) = 1
          /\ \A n \in 1..Len(doneArgs) :
                /\ doneArgs[n].rec.final_media = result.final_media
                /\ doneArgs[n].rec.final_media # None <=>
                      \A s \in Storages : Count("store_final", s) = 1
                /\ doneArgs[n].rec.final_media = None <=>
                      Positions({"store_final"}) = {}

C13_Witness ==
    /\ pc = "return"
    /\ Len(doneArgs) = NumDatabases
    /\ doneArgs[NumDatabases].rec.final_media = Some(FinalMedia)
    /\ \A s \in Storages : Count("store_final", s) = 1
    /\ Positions({"store"}) # {}

\* The other case of C13: format returned nothing.
C13_WitnessNoArtifact ==
    /\ pc = "return"
    /\ Len(doneArgs) = NumDatabases
    /\ result.final_media = None
    /\ Positions({"store"}) # {}

\* No item is in flight: feed() is between two items, or has stopped.
BetweenItems == pc \in {"feed", "finished", "exited", "crashed"}

\* C14: the temporary directory feed_item creates for an item is removed on
\* every way out of the with block (return, Exception, KeyboardInterrupt):
\* none exists once the handlers run, once feed() has moved on or once it has
\* stopped; while archive runs the only directory is that of the item in
\* flight, and at no time is there more than one.
C14_TmpDirReleased ==
    /\ Cardinality(tmp_dir) <= 1
    /\ (BetweenItems \/ InHandler) => tmp_dir = {}
    /\ InTry => tmp_dir = {fed}

\* The second item left the with block through an Exception: its directory
\* is gone when the handler runs.
C14_Witness ==
    /\ fed = 2
    /\ pc = "failed"
    /\ tmp_dir = {}
    /\ ExceptionEscaped

\* feed() has stopped: it returned, the process exited, or an exception left it.
Stopped == pc \in {"finished", "exited", "crashed"}

\* C15: without a KeyboardInterrupt, whatever the plugins raise, feed() stops
\* only by returning once the feeder is exhausted, and when it goes on to the
\* next item every database has received done or failed for the previous one.
C15_RunLoopProgress ==
    ~Interrupted =>
        /\ Stopped => (pc = "finished" /\ fed = NumItems)
        /\ (pc = "feed" /\ fed > 0) =>
              \A d \in Databases : Count("done", d) + Count("failed", d) >= 1

\* Two records are equal on every scalar and collection field.
SameFields(a, b) == DOMAIN a = DOMAIN b /\ \A key \in DOMAIN a : a[key] = b[key]

\* Every database so far returned the same non-empty record from fetch.
SameRecordFetched ==
    /\ Len(fetched) >= 2
    /\ \A n \in 1..Len(fetched) : fetched[n] # None /\ fetched[n] = fetched[1]

\* C16: merging a record into a copy of itself yields a record equal to the
\* original: when every database's fetch returns the same record, the
\* candidate they are merged into equals that record, Media list included.
C16_IdempotentMerge ==
    (SameRecordFetched /\ cached_result # None) =>
        /\ SameFields(cached_result[1], fetched[1][1])
        /\ SameFields(Merge(fetched[1][1], fetched[1][1]), fetched[1][1])

\* The stage of archive a call belongs to, in the order of the stages.
StageOf(op) ==
    CASE op = "sanitize_url" -> 1
      [] op = "is_rearchivable" -> 2
      [] op \in {"started", "fetch"} -> 3
      [] op = "download" -> 4
      [] op = "enrich" -> 5
      [] op = "store" -> 6
      [] op = "format" -> 7
      [] op = "store_final" -> 8
      [] OTHER -> 9

RECURSIVE IsPrefix(_, _)
IsPrefix(s, t) ==
    IF s = <<>> THEN TRUE
    ELSE IF t = <<>> THEN FALSE
    ELSE Head(s) = Head(t) /\ IsPrefix(Tail(s), Tail(t))

\* The lookup left no candidate, or a rearchivable one.
NoUsableCandidate == cached_result = None \/ cached_result[1].rearchivable

\* C18: when the lookup leaves no candidate or a rearchivable one, the item
\* goes on to step 3, and the candidate's content is carried into the normal
\* flow: the record given to done is the download result merged over the
\* cached data, so its Media list begins with the candidate's.
C18_CacheCarriedIntoNormalFlow ==
    (PastLookup /\ pc # "cache_check" /\ NoUsableCandidate) =>
        /\ pc \notin {"done_cached", "return_cached"}
        /\ \A n \in 1..Len(doneArgs) :
              /\ doneArgs[n].arg = "result"
              /\ cached_result # None =>
                    IsPrefix(cached_result[1].media, doneArgs[n].rec.media)

\* archive is on the short-circuit path (lines 120-123), or has returned
\* from it.
OnShortCircuitPath ==
    \/ pc \in {"done_cached", "return_cached"}
    \/ pc \in {"feed", "finished"} /\ doneArgs # <<>> /\ doneArgs[1].arg = "cached_result"

\* C19: on the short-circuit path no download, enrich, store or format is
\* called for the item; every done call is given the merged cached record and
\* none the item's own record, which every database received with started;
\* and archive returns the merged cached record.
C19_ShortCircuitFrame ==
    (CallsComplete /\ OnShortCircuitPath) =>
        /\ NoCallOf({"download", "enrich", "store", "format", "store_final"})
        /\ stored = <<>> /\ downloads = <<>>
        /\ \A d \in Databases : Count("started", d) = 1
        /\ \A n \in 1..Len(doneArgs) :
              /\ doneArgs[n].arg = "cached_result"
              /\ doneArgs[n].rec = MergedCandidate(fetched)[1]
              /\ doneArgs[n].rec # result
        /\ pc = "return_cached" =>
              /\ cached_result = MergedCandidate(fetched)
              /\ \A d \in Databases : Count("done", d) = 1
        /\ pc \in {"feed", "finished"} =>
              /\ returned = MergedCandidate(fetched)
              /\ returned # Some(result)
              /\ \A d \in Databases : Count("done", d) = 1

C19_Witness ==
    /\ pc = "feed"
    /\ returned # None
    /\ returned = MergedCandidate(fetched)
    /\ Len(doneArgs) = NumDatabases
    /\ Len(returned[1].media) >= 2

\* The first archiver's download succeeded at once and nothing raised.
FirstDownloadSucceeded ==
    /\ CallsComplete
    /\ Len(downloads) = 1
    /\ downloads[1].by = 1
    /\ downloads[1].success
    /\ ~downloads[1].raised

\* C20: a database receives done only after it has received started, and
\* every started call of the item precedes every done call; when the first
\* archiver's download succeeds at once (and nothing raises), every database
\* has received, once archive returns, exactly one started and then one done,
\* and neither failed nor aborted.
C20_StartedBeforeDone ==
    /\ CallsComplete =>
          /\ \A n \in Positions({"done"}) :
                \E m \in CallsOf("started", calls[n].by) : m < n
          /\ \A m \in Positions({"started"}) : \A n \in Positions({"done"}) : m < n
          /\ Positions({"done"}) # {} =>
                \A d \in Databases : Count("started", d) = 1
    /\ (FirstDownloadSucceeded /\ pc \in {"return", "feed", "finished"}) =>
          \A d \in Databases :
              /\ Count("started", d) = 1
              /\ Count("done", d) = 1
              /\ Count("failed", d) = 0
              /\ Count("aborted", d) = 0
              /\ \A m \in CallsOf("started", d) : \A n \in CallsOf("done", d) : m < n

C20_Witness ==
    /\ pc = "feed"
    /\ FirstDownloadSucceeded
    /\ IsSuccess(result)
    /\ returned = Some(result)
    /\ \A d \in Databases : Count("done", d) = 1
====
